---- MODULE Spec2Model ----
(***************************************************************************)
(* Model of the film-planner title parser (src/preprocess_sheet.py).       *)
(*                                                                         *)
(* A Python str is a sequence of one-character strings.  Offsets into a    *)
(* string are 0-based as in the source: the character at offset p of s is  *)
(* s[p+1], and s[a:b] is SubSeq(s, a+1, b).  A regular expression is       *)
(* modelled by an operator that computes the match re.search / re.sub      *)
(* would find (leftmost start, greedy quantifiers).                        *)
(***************************************************************************)
EXTENDS Integers, Sequences, FiniteSets, TLC

(***************************************************************************)
(* Character classes and case mapping (ASCII part of str.upper/lower).     *)
(***************************************************************************)
Lowercase == <<"a", "b", "c", "d", "e", "f", "g", "h", "i", "j", "k", "l", "m", "n", "o", "p", "q", "r", "s", "t", "u", "v", "w", "x", "y", "z">>

Uppercase == <<"A", "B", "C", "D", "E", "F", "G", "H", "I", "J", "K", "L", "M", "N", "O", "P", "Q", "R", "S", "T", "U", "V", "W", "X", "Y", "Z">>

Digits == {"0", "1", "2", "3", "4", "5", "6", "7", "8", "9"}

\* the characters \s, str.strip() and str.split() treat as whitespace
Whitespace == {" ", "\t"}

\* Python's None (the absent year); no string equals it
None == <<"None">>

IsLower(c) == \E i \in 1..26 : Lowercase[i] = c

IsUpper(c) == \E i \in 1..26 : Uppercase[i] = c

IsDigit(c) == c \in Digits

IsSpace(c) == c \in Whitespace

UpperChar(c) == IF IsLower(c) THEN Uppercase[CHOOSE i \in 1..26 : Lowercase[i] = c] ELSE c

LowerChar(c) == IF IsUpper(c) THEN Lowercase[CHOOSE i \in 1..26 : Uppercase[i] = c] ELSE c

\* str.upper()
Upper(s) == [i \in 1..Len(s) |-> UpperChar(s[i])]

\* str.lower()
Lower(s) == [i \in 1..Len(s) |-> LowerChar(s[i])]

\* str.capitalize(): first character upper case, the rest lower case
Capitalize(s) == [i \in 1..Len(s) |-> IF i = 1 THEN UpperChar(s[i]) ELSE LowerChar(s[i])]

\* str.isupper(): no lower-case letter and at least one upper-case letter
IsUpperStr(s) == /\ \A i \in 1..Len(s) : ~IsLower(s[i])
                 /\ \E i \in 1..Len(s) : IsUpper(s[i])

(***************************************************************************)
(* Slicing, prefix tests, trimming, splitting and joining.                 *)
(***************************************************************************)
\* s[a:b] with 0 <= a, b <= len(s)
Slice(s, a, b) == SubSeq(s, a + 1, b)

\* the literal p stands in s at offset pos
MatchAt(s, pos, p) == /\ pos + Len(p) <= Len(s)
                      /\ \A i \in 1..Len(p) : s[pos + i] = p[i]

\* str.startswith
StartsWith(s, p) == MatchAt(s, 0, p)

\* offset of the first non-whitespace character at or after pos (greedy \s*)
RECURSIVE SkipWs(_, _)
SkipWs(s, pos) == IF pos < Len(s) /\ IsSpace(s[pos + 1]) THEN SkipWs(s, pos + 1) ELSE pos

\* str.lstrip()
LStrip(s) == Slice(s, SkipWs(s, 0), Len(s))

\* str.rstrip(chars): drops the trailing characters that are in chars
RECURSIVE RStripChars(_, _)
RStripChars(s, chars) == IF Len(s) > 0 /\ s[Len(s)] \in chars THEN RStripChars(SubSeq(s, 1, Len(s) - 1), chars) ELSE s

\* str.strip()
Strip(s) == RStripChars(LStrip(s), Whitespace)

\* offset of the first whitespace character at or after pos, len(s) if none
RECURSIVE SkipWord(_, _)
SkipWord(s, pos) == IF pos < Len(s) /\ ~IsSpace(s[pos + 1]) THEN SkipWord(s, pos + 1) ELSE pos

\* str.split(): the maximal runs of non-whitespace characters, in order
RECURSIVE SplitFrom(_, _)
SplitFrom(s, pos) == LET a == SkipWs(s, pos)
                         b == SkipWord(s, a)
                     IN  IF a >= Len(s) THEN <<>> ELSE <<Slice(s, a, b)>> \o SplitFrom(s, b)

Split(s) == SplitFrom(s, 0)

\* ' '.join(parts)
RECURSIVE Join(_)
Join(parts) == IF Len(parts) = 0 THEN <<>>
               ELSE IF Len(parts) = 1 THEN parts[1]
               ELSE parts[1] \o <<" ">> \o Join(Tail(parts))

\* the least element of a non-empty set of offsets (leftmost match of re.search)
Least(S) == CHOOSE m \in S : \A n \in S : m <= n

\* min that keeps the offset of the marker tested last
min_last(a, b) == b

\* Python's min(a, b)
min(a, b) == IF a <= b THEN a ELSE b

(***************************************************************************)
(* remove_prefix                                                           *)
(***************************************************************************)
\* the list with the plain FILM labels ahead of the compound ones
prefixes_plainfirst == << <<"F", "I", "L", "M", " ", ":">>,
                          <<"F", "I", "L", "M", ":">>,
                          <<"F", "I", "L", "M", " ", ":", " ", "D", "O", "C", "U", ":">>,
                          <<"F", "I", "L", "M", ":", " ", "D", "O", "C", "U", ":">>,
                          <<"T", "V", " ", "s", "e", "r", "i", "e", "s", ":">>,
                          <<"T", "V", " ", "S", "E", "R", "I", "E", "S", ":">>,
                          <<"T", "V", ":">>,
                          <<"F", "i", "l", "m", ":">>,
                          <<"T", "V", " ", ":">> >>

prefixes == << <<"F", "I", "L", "M", " ", ":", " ", "D", "O", "C", "U", ":">>,
               <<"F", "I", "L", "M", ":", " ", "D", "O", "C", "U", ":">>,
               <<"T", "V", " ", "s", "e", "r", "i", "e", "s", ":">>,
               <<"T", "V", " ", "S", "E", "R", "I", "E", "S", ":">>,
               <<"F", "I", "L", "M", " ", ":">>,
               <<"F", "I", "L", "M", ":">>,
               <<"T", "V", ":">>,
               <<"F", "i", "l", "m", ":">>,
               <<"T", "V", " ", ":">> >>

\* the for loop without its break: every entry that matches what is left is stripped
RECURSIVE StripEach(_, _)
StripEach(s, i) == IF i > Len(prefixes) THEN s
                   ELSE IF StartsWith(Upper(s), Upper(prefixes[i])) THEN StripEach(Strip(Slice(s, Len(prefixes[i]), Len(s))), i + 1)
                   ELSE StripEach(s, i + 1)

remove_prefix_nobreak(title) == StripEach(Strip(title), 1)

\* the comparison without upper(): only a label in the casing of the list matches
remove_prefix_exactcase(title) == LET title_clean == Strip(title)
                                      hits == {i \in 1..Len(prefixes) : StartsWith(title_clean, prefixes[i])}
                                  IN  IF hits = {} THEN title_clean
                                      ELSE Strip(Slice(title_clean, Len(prefixes[Least(hits)]), Len(title_clean)))

\* the for loop with its break: the first entry of the list that matches
remove_prefix(title) == LET title_clean == Strip(title)
                            hits == {i \in 1..Len(prefixes) : StartsWith(Upper(title_clean), Upper(prefixes[i]))}
                        IN  IF hits = {} THEN title_clean
                            ELSE Strip(Slice(title_clean, Len(prefixes[Least(hits)]), Len(title_clean)))

(***************************************************************************)
(* extract_year and the two substitutions that remove the year             *)
(***************************************************************************)
\* four digits stand in s at offset pos
FourDigitsAt(s, pos) == /\ pos + 4 <= Len(s)
                        /\ \A i \in 1..4 : IsDigit(s[pos + i])

\* \(\d{4}\) matches in s at offset pos
YearGroupAt(s, pos) == /\ pos + 6 <= Len(s)
                       /\ s[pos + 1] = "("
                       /\ FourDigitsAt(s, pos + 1)
                       /\ s[pos + 6] = ")"

\* ^\d{4}\s matches s
StartYearMatch(s) == /\ FourDigitsAt(s, 0)
                     /\ Len(s) >= 5
                     /\ IsSpace(s[5])

\* ^\d{4} in place of ^\d{4}\s: a bare year at the start needs no whitespace after it
extract_year_nospace(text) == LET hits == {p \in 0..Len(text) : YearGroupAt(text, p)}
                              IN  IF hits # {} THEN Slice(text, Least(hits) + 1, Least(hits) + 5)
                                  ELSE IF FourDigitsAt(text, 0) THEN Slice(text, 0, 4)
                                  ELSE None

\* extract_year trying the bare year at the start before the parenthesized one
extract_year_startfirst(text) == LET hits == {p \in 0..Len(text) : YearGroupAt(text, p)}
                                 IN  IF StartYearMatch(text) THEN Slice(text, 0, 4)
                                     ELSE IF hits # {} THEN Slice(text, Least(hits) + 1, Least(hits) + 5)
                                     ELSE None

extract_year(text) == LET hits == {p \in 0..Len(text) : YearGroupAt(text, p)}
                      IN  IF hits # {} THEN Slice(text, Least(hits) + 1, Least(hits) + 5)
                          ELSE IF StartYearMatch(text) THEN Slice(text, 0, 4)
                          ELSE None

\* re.sub(r'\s*\(\d{4}\)\s*', ' ', text), scanning from offset pos: every match
\* (with the whitespace around it) becomes one space
RECURSIVE SubYearGroupFrom(_, _)
SubYearGroupFrom(s, pos) == IF pos >= Len(s) THEN <<>>
                            ELSE IF YearGroupAt(s, SkipWs(s, pos))
                                 THEN <<" ">> \o SubYearGroupFrom(s, SkipWs(s, SkipWs(s, pos) + 6))
                                 ELSE <<s[pos + 1]>> \o SubYearGroupFrom(s, pos + 1)

SubYearGroup(text) == SubYearGroupFrom(text, 0)

\* re.sub(r'^\d{4}\s+', '', text)
SubStartYear(text) == IF StartYearMatch(text) THEN Slice(text, SkipWs(text, 4), Len(text)) ELSE text

(***************************************************************************)
(* The parenthetical search of the while loop                              *)
(***************************************************************************)
\* offsets after pos at which a closing parenthesis stands
ClosersAfter(s, pos) == {k \in pos..(Len(s) - 1) : s[k + 1] = ")"}

\* \s*\(([^)]+)\)\s* matches in s starting at offset pos
ParenAt(s, pos) == LET open == SkipWs(s, pos)
                   IN  /\ open + 1 < Len(s)
                       /\ s[open + 1] = "("
                       /\ s[open + 2] # ")"
                       /\ ClosersAfter(s, open + 2) # {}

\* the offsets re.match would try: the start of the string only
ParenHits_match(s) == {p \in {0} : ParenAt(s, p)}

ParenHits(s) == {p \in 0..Len(s) : ParenAt(s, p)}

\* the search taking the rightmost parenthetical instead of the leftmost
paren_search_rightmost(text) == LET start == CHOOSE m \in ParenHits(text) : \A n \in ParenHits(text) : n <= m
                                    open  == SkipWs(text, start)
                                    close == Least(ClosersAfter(text, open + 2))
                                IN  [start |-> start, end |-> SkipWs(text, close + 1), group |-> Slice(text, open + 1, close)]

\* the match with end() taken to be start(): nothing is cut out of the text
paren_search_noadvance(text) == LET start == Least(ParenHits(text))
                                    open  == SkipWs(text, start)
                                    close == Least(ClosersAfter(text, open + 2))
                                IN  [start |-> start, end |-> start, group |-> Slice(text, open + 1, close)]

\* re.search(r'\s*\(([^)]+)\)\s*', text): start(), end() and group(1) of the
\* leftmost match; only used when ParenHits(text) is not empty
paren_search(text) == LET start == Least(ParenHits(text))
                         open  == SkipWs(text, start)
                         close == Least(ClosersAfter(text, open + 2))
                     IN  [start |-> start, end |-> SkipWs(text, close + 1), group |-> Slice(text, open + 1, close)]

(***************************************************************************)
(* The three noise markers                                                 *)
(***************************************************************************)
UrlMarkers == {<<"h", "t", "t", "p", ":", "/", "/">>, <<"h", "t", "t", "p", "s", ":", "/", "/">>, <<"w", "w", "w", ".">>}

CommaKeywords == {<<"r", "e", "c", "o", "m", "m", "e", "n", "d", "e", "d">>, <<"f", "i", "l", "m">>, <<"r", "e", "c", "o", "m">>,
                  <<"A", "m", "a", "z", "o", "n">>, <<"N", "e", "t", "f", "l", "i", "x">>, <<"I", "M", "D", "b">>}

DashKeywords == {<<"r", "e", "c", "o", "m", "m", "e", "n", "d", "e", "d">>, <<"f", "i", "l", "m">>, <<"p", "r", "e", "c", "u", "r", "s", "o", "r">>,
                 <<"p", "o", "l", "i", "t", "i", "c", "a", "l">>, <<"h", "t", "t", "p", "s">>, <<"w", "w", "w">>, <<"I", "M", "D", "b">>}

\* (https?://|www\.) matches in s at offset pos
UrlAt(s, pos) == \E m \in UrlMarkers : MatchAt(s, pos, m)

\* [a-z] matches in s at offset pos
LowerAt(s, pos) == pos < Len(s) /\ IsLower(s[pos + 1])

\* [A-Z]{2} matches in s at offset pos
TwoUpperAt(s, pos) == pos + 2 <= Len(s) /\ IsUpper(s[pos + 1]) /\ IsUpper(s[pos + 2])

\* the pattern with \s* in place of \s+: no whitespace needed after the comma
CommaAt_nospace(s, pos) == LET word == SkipWs(s, pos + 1)
                           IN  /\ pos < Len(s)
                               /\ s[pos + 1] = ","
                               /\ (LowerAt(s, word) \/ \E k \in CommaKeywords : MatchAt(s, word, k))

\* ,\s+(?:[a-z]|recommended|film|recom|Amazon|Netflix|IMDb) matches at offset pos
CommaAt(s, pos) == LET word == SkipWs(s, pos + 1)
                   IN  /\ pos < Len(s)
                       /\ s[pos + 1] = ","
                       /\ word > pos + 1
                       /\ (LowerAt(s, word) \/ \E k \in CommaKeywords : MatchAt(s, word, k))

\* \s+-\s+(?:[a-z]|[A-Z]{2}|recommended|film|precursor|political|https|www|IMDb)
\* matches at offset pos
DashAt(s, pos) == LET dash == SkipWs(s, pos)
                      word == SkipWs(s, dash + 1)
                  IN  /\ dash > pos
                      /\ dash < Len(s)
                      /\ s[dash + 1] = "-"
                      /\ word > dash + 1
                      /\ (LowerAt(s, word) \/ TwoUpperAt(s, word) \/ \E k \in DashKeywords : MatchAt(s, word, k))

UrlHits(s) == {p \in 0..Len(s) : UrlAt(s, p)}

CommaHits(s) == {p \in 0..Len(s) : CommaAt(s, p)}

DashHits(s) == {p \in 0..Len(s) : DashAt(s, p)}

(***************************************************************************)
(* Title normalisation                                                     *)
(***************************************************************************)
\* clean_title.rstrip(' ,-') followed by ' '.join(clean_title.split())
CleanUp(title) == Join(Split(RStripChars(title, {" ", ",", "-"})))

\* the length test off by one: words of two characters are capitalized too
CaseWord_ge2(word) == IF Len(word) >= 2 THEN Capitalize(word) ELSE Lower(word)

\* word.capitalize() if len(word) > 2 else word.lower()
CaseWord(word) == IF Len(word) > 2 THEN Capitalize(word) ELSE Lower(word)

\* the title-case branch: left alone when empty or all upper case
TitleCase(title) == IF Len(title) > 0 /\ ~IsUpperStr(title)
                    THEN Join([i \in 1..Len(Split(title)) |-> CaseWord(Split(title)[i])])
                    ELSE title

(***************************************************************************)
(* extract_clean_title as a state machine: one call per behaviour, pc is   *)
(* the position in the function body, the other variables are its locals.  *)
(***************************************************************************)
VARIABLES pc, raw_title, text, year, notes_parts, title_end, notes_start, clean_title, notes

\* The callers of the parser: parse_no counts the calls made on one title
\* (the second call is handed the title the first returned); caller_pc,
\* raw_data, row_idx, processed_rows and calls are preprocess_data, its
\* input, its position in it, its output and the log of the parser calls
\* that returned.
VARIABLES parse_no, caller_pc, raw_data, row_idx, processed_rows, calls

\* check_film_availability: its position, the film it was called with, the
\* value search_film returned, the result dict and the log of the calls
\* made to the external service.
VARIABLES av_pc, film, movie_id, result, api_calls

parserVars == <<pc, raw_title, text, year, notes_parts, title_end, notes_start, clean_title, notes>>

callerVars == <<parse_no, caller_pc, raw_data, row_idx, processed_rows, calls>>

availVars == <<av_pc, film, movie_id, result, api_calls>>

vars == <<pc, raw_title, text, year, notes_parts, title_end, notes_start, clean_title, notes,
          parse_no, caller_pc, raw_data, row_idx, processed_rows, calls,
          av_pc, film, movie_id, result, api_calls>>

\* preprocess_data is not running: the parser was called on its own
NoBatch == /\ parse_no = 1
           /\ caller_pc = "call"
           /\ raw_data = <<>>
           /\ row_idx = 0
           /\ processed_rows = <<>>
           /\ calls = <<>>

\* check_film_availability is not running
NoAvail == /\ av_pc = "idle"
           /\ film = <<>>
           /\ movie_id = None
           /\ result = <<>>
           /\ api_calls = <<>>

\* the locals before the first assignment to them
InitLocals == /\ pc = "remove_prefix"
              /\ text = <<>>
              /\ year = None
              /\ notes_parts = <<>>
              /\ title_end = 0
              /\ notes_start = 0
              /\ clean_title = <<>>
              /\ notes = <<>>

\* text = remove_prefix(raw_title)
RemovePrefix == /\ pc = "remove_prefix"
                /\ text' = remove_prefix(raw_title)
                /\ pc' = "extract_year"
                /\ UNCHANGED <<raw_title, year, notes_parts, title_end, notes_start, clean_title, notes, callerVars, availVars>>

\* the step with notes_parts kept from one call to the next
ExtractYear_keepnotes == /\ pc = "extract_year"
                         /\ year' = extract_year(text)
                         /\ pc' = "remove_year"
                         /\ UNCHANGED <<raw_title, text, notes_parts, title_end, notes_start, clean_title, notes, callerVars, availVars>>

\* year = extract_year(text); notes_parts = []
ExtractYear == /\ pc = "extract_year"
               /\ year' = extract_year(text)
               /\ notes_parts' = <<>>
               /\ pc' = "remove_year"
               /\ UNCHANGED <<raw_title, text, title_end, notes_start, clean_title, notes, callerVars, availVars>>

\* if year: the two re.sub calls
RemoveYear == /\ pc = "remove_year"
              /\ year # None
              /\ text' = SubStartYear(SubYearGroup(text))
              /\ pc' = "parens"
              /\ UNCHANGED <<raw_title, year, notes_parts, title_end, notes_start, clean_title, notes, callerVars, availVars>>

\* if year: not taken
NoYear == /\ pc = "remove_year"
          /\ year = None
          /\ pc' = "parens"
          /\ UNCHANGED <<raw_title, text, year, notes_parts, title_end, notes_start, clean_title, notes, callerVars, availVars>>

\* one iteration of the while loop that found a parenthetical
ParenFound == /\ pc = "parens"
              /\ ParenHits(text) # {}
              /\ LET paren_match == paren_search(text)
                     parenthetical_content == Strip(paren_match.group)
                 IN  /\ notes_parts' = IF Len(parenthetical_content) > 0
                                       THEN Append(notes_parts, <<"(">> \o parenthetical_content \o <<")">>)
                                       ELSE notes_parts
                     /\ text' = Slice(text, 0, paren_match.start) \o <<" ">> \o Slice(text, paren_match.end, Len(text))
              /\ pc' = "parens"
              /\ UNCHANGED <<raw_title, year, title_end, notes_start, clean_title, notes, callerVars, availVars>>

\* the search fails: break; title_end = len(text); notes_start = len(text)
ParenDone == /\ pc = "parens"
             /\ ParenHits(text) = {}
             /\ title_end' = Len(text)
             /\ notes_start' = Len(text)
             /\ pc' = "url"
             /\ UNCHANGED <<raw_title, text, year, notes_parts, clean_title, notes, callerVars, availVars>>

\* url_match
FindUrl == /\ pc = "url"
           /\ IF UrlHits(text) # {}
              THEN /\ title_end' = min(title_end, Least(UrlHits(text)))
                   /\ notes_start' = Least(UrlHits(text))
              ELSE UNCHANGED <<title_end, notes_start>>
           /\ pc' = "comma"
           /\ UNCHANGED <<raw_title, text, year, notes_parts, clean_title, notes, callerVars, availVars>>

\* comma_pattern
FindComma == /\ pc = "comma"
             /\ IF CommaHits(text) # {}
                THEN /\ title_end' = min(title_end, Least(CommaHits(text)))
                     /\ notes_start' = Least(CommaHits(text))
                ELSE UNCHANGED <<title_end, notes_start>>
             /\ pc' = "dash"
             /\ UNCHANGED <<raw_title, text, year, notes_parts, clean_title, notes, callerVars, availVars>>

\* dash_pattern
FindDash == /\ pc = "dash"
            /\ IF DashHits(text) # {}
               THEN /\ title_end' = min(title_end, Least(DashHits(text)))
                    /\ notes_start' = Least(DashHits(text))
               ELSE UNCHANGED <<title_end, notes_start>>
            /\ pc' = "split"
            /\ UNCHANGED <<raw_title, text, year, notes_parts, clean_title, notes, callerVars, availVars>>

\* clean_title = text[:title_end].strip(); the remainder joins notes_parts;
\* notes = ' '.join(notes_parts)
SplitTitle == /\ pc = "split"
              /\ clean_title' = Strip(Slice(text, 0, title_end))
              /\ LET remaining_text == Strip(Slice(text, notes_start, Len(text)))
                 IN  /\ notes_parts' = IF Len(remaining_text) > 0 THEN Append(notes_parts, remaining_text) ELSE notes_parts
                     /\ notes' = Join(notes_parts')
              /\ pc' = "normalise"
              /\ UNCHANGED <<raw_title, text, year, title_end, notes_start, callerVars, availVars>>

\* trailing punctuation and multiple spaces
Normalise == /\ pc = "normalise"
             /\ clean_title' = CleanUp(clean_title)
             /\ pc' = "capitalise"
             /\ UNCHANGED <<raw_title, text, year, notes_parts, title_end, notes_start, notes, callerVars, availVars>>

\* title case, then return clean_title, year, notes
Capitalise == /\ pc = "capitalise"
              /\ clean_title' = TitleCase(clean_title)
              /\ pc' = "done"
              /\ UNCHANGED <<raw_title, text, year, notes_parts, title_end, notes_start, notes, callerVars, availVars>>

Next == \/ RemovePrefix
        \/ ExtractYear
        \/ RemoveYear
        \/ NoYear
        \/ ParenFound
        \/ ParenDone
        \/ FindUrl
        \/ FindComma
        \/ FindDash
        \/ SplitTitle
        \/ Normalise
        \/ Capitalise

(***************************************************************************)
(* Inputs.  A raw title is one of the examples of the specification or a   *)
(* concatenation of at most MaxFrags fragments of a pool; each pool holds  *)
(* the pieces one stage of the parser reacts to.                           *)
(***************************************************************************)
MaxFrags == 3

RECURSIVE Concat(_)
Concat(frags) == IF Len(frags) = 0 THEN <<>> ELSE frags[1] \o Concat(Tail(frags))

Build(pool) == {Concat(frags) : frags \in UNION {[1..k -> pool] : k \in 0..MaxFrags}}

\* the worked examples
Examples == {<<>>,
             <<"S", "c", "h", "i", "n", "d", "l", "e", "r", "'", "s", " ", "L", "i", "s", "t", " ", "(", "1", "9", "9", "3", ")">>,
             <<"1", "9", "9", "4", " ", "S", "o", "m", "e", " ", "T", "i", "t", "l", "e">>,
             <<"F", "i", "l", "m", ":", " ", "D", "o", "c", "u", ":", " ", "T", "i", "t", "l", "e", " ", "(", "D", "i", "r", "e", "c", "t", "o", "r", "'", "s", " ", "C", "u", "t", ")", " ", "(", "2", "0", "0", "1", ")", ",", " ", "r", "e", "c", "o", "m", "m", "e", "n", "d", "e", "d", " ", "b", "y", " ", "J", "o">>,
             <<"S", "o", "m", "e", " ", "M", "o", "v", "i", "e", " ", "-", " ", "h", "t", "t", "p", "s", ":", "/", "/", "e", "x", "a", "m", "p", "l", "e", ".", "c", "o", "m", "/", "i", "n", "f", "o">>,
             <<"N", "A", "S", "A", ":", " ", "A", " ", "D", "o", "c", "u", "m", "e", "n", "t", "a", "r", "y">>,
             <<"h", "t", "t", "p", "s", ":", "/", "/", "e", "x", "a", "m", "p", "l", "e", ".", "c", "o", "m", "/", "i", "n", "f", "o">>}

\* title words, the three noise markers, punctuation and a parenthetical
NoisePool == {<<"A", "b">>,
              <<" ">>,
              <<"\t">>,
              <<",">>,
              <<",", " ", "r", "e">>,
              <<" ", "-", " ", "r", "e">>,
              <<"-">>,
              <<"w", "w", "w", ".", "x">>,
              <<"x", "H", "T", "T", "P", ":", "/", "/">>,
              <<"(", "n", ")">>}

\* parentheses alone and in groups, a year group and a noise marker
ParenPool == {<<"(">>,
              <<")">>,
              <<" ">>,
              <<"n">>,
              <<"(", "n", ")">>,
              <<"(", " ", "m", ")">>,
              <<"(", "1", "9", "9", "9", ")">>,
              <<",", " ", "r", "e">>}

\* year markers of both forms and their near misses
YearPool == {<<"(", "1", "9", "9", "9", ")">>,
             <<"(", "2", "0", "0", "1", ")">>,
             <<"1", "9", "9", "4">>,
             <<"5">>,
             <<" ">>,
             <<"A", "b">>,
             <<"(", "x", ")">>,
             <<"F", "i", "l", "m", ":">>}

\* label prefixes in several casings and their parts
PrefixPool == {<<"F", "i", "l", "m", ":">>,
               <<" ", "D", "o", "c", "u", ":">>,
               <<"F", "I", "L", "M", " ", ":">>,
               <<"t", "v", " ", "s", "e", "r", "i", "e", "s", ":">>,
               <<"T", "V", ":">>,
               <<" ">>,
               <<"A", "b">>,
               <<"f", "i", "l", "m">>}

\* words of several lengths and casings
CasePool == {<<"a", "B">>,
             <<"X">>,
             <<"y">>,
             <<" ">>,
             <<"1">>,
             <<"N", "A", "S", "A">>,
             <<":">>}

\* commas and dashes with the words that may follow them
MarkerPool == {<<"A", "b">>,
               <<" ", "-", " ">>,
               <<",", " ">>,
               <<",">>,
               <<"-">>,
               <<"r", "e">>,
               <<"R", "e">>,
               <<"U", "K">>,
               <<"U", "S", "A">>,
               <<"I", "M", "D", "b">>}

Init == raw_title \in Examples \cup Build(NoisePool) /\ InitLocals /\ NoBatch /\ NoAvail

InitYear == raw_title \in Examples \cup Build(YearPool) /\ InitLocals /\ NoBatch /\ NoAvail

InitPrefix == raw_title \in Examples \cup Build(PrefixPool) /\ InitLocals /\ NoBatch /\ NoAvail

InitParen == raw_title \in Examples \cup Build(ParenPool) /\ InitLocals /\ NoBatch /\ NoAvail

InitMarker == raw_title \in Examples \cup Build(MarkerPool) /\ InitLocals /\ NoBatch /\ NoAvail

InitCase == raw_title \in Examples \cup Build(CasePool) /\ InitLocals /\ NoBatch /\ NoAvail

Spec == Init /\ [][Next]_vars

SpecYear == InitYear /\ [][Next]_vars

SpecPrefix == InitPrefix /\ [][Next]_vars

SpecParen == InitParen /\ [][Next]_vars

SpecMarker == InitMarker /\ [][Next]_vars

SpecCase == InitCase /\ [][Next]_vars

(***************************************************************************)
(* Properties of the noise boundary (stage 4)                              *)
(***************************************************************************)
\* start offsets of the noise markers that match in the running text
NoiseStarts == UrlHits(text) \cup CommaHits(text) \cup DashHits(text)

\* the title candidate and notes_parts have been computed
AfterSplit == pc \in {"normalise", "capitalise", "done"}

\* C1: when a noise marker matches, the remainder appended to the notes is
\* the text from the start of the earliest marker to the end, trimmed.
C1_RemainderFromEarliestMarker == (AfterSplit /\ NoiseStarts # {}) =>
                                      /\ Len(notes_parts) > 0
                                      /\ notes_parts[Len(notes_parts)] = Strip(Slice(text, Least(NoiseStarts), Len(text)))

\* C2: the title candidate is the text before the least start offset over
\* the markers that match, whichever pattern matched; with no marker it is
\* the whole text and nothing is added to the notes.
C2_TitleBeforeEarliestMarker == [][pc = "split" =>
                                      IF NoiseStarts = {}
                                      THEN clean_title' = Strip(text) /\ notes_parts' = notes_parts
                                      ELSE clean_title' = Strip(Slice(text, 0, Least(NoiseStarts)))]_vars

\* a URL and, after it, a comma marker have matched and the title was cut
C2_Witness == /\ pc = "normalise"
              /\ UrlHits(text) # {}
              /\ CommaHits(text) # {}
              /\ Least(UrlHits(text)) < Least(CommaHits(text))
              /\ Len(clean_title) > 0

(***************************************************************************)
(* Properties of year extraction (stage 2)                                 *)
(***************************************************************************)
\* offsets of the parenthesized 4-digit groups of s
YearGroups(s) == {p \in 0..Len(s) : YearGroupAt(s, p)}

\* offset at which the whitespace run ending just before pos begins
RECURSIVE WsRunStart(_, _)
WsRunStart(s, pos) == IF pos > 0 /\ IsSpace(s[pos]) THEN WsRunStart(s, pos - 1) ELSE pos

\* s with only the marker the year was read from removed: the leftmost
\* parenthesized group (it and the whitespace around it become one space),
\* or else the bare year at the start with the whitespace after it
OneYearRemoved(s) == IF YearGroups(s) # {}
                     THEN Slice(s, 0, WsRunStart(s, Least(YearGroups(s)))) \o <<" ">>
                              \o Slice(s, SkipWs(s, Least(YearGroups(s)) + 6), Len(s))
                     ELSE Slice(s, SkipWs(s, 4), Len(s))

\* C3: removing the year takes out of the text only the one marker whose
\* digits became the year; every other year marker stays in the text.
C3_OnlyExtractedYearRemoved == [][(pc = "remove_year" /\ year # None) => text' = OneYearRemoved(text)]_vars

\* C4: the year is the four digits of the leftmost parenthesized 4-digit
\* group of the prefix-stripped text, else the four digits at its very start
\* that whitespace follows, else absent; a present year is four digits; an
\* absent year leaves the text as it is; the two worked examples.
C4_YearState == /\ pc = "remove_year" =>
                       \/ \E p \in YearGroups(text) :
                             /\ \A q \in YearGroups(text) : p <= q
                             /\ year = <<text[p + 2], text[p + 3], text[p + 4], text[p + 5]>>
                       \/ /\ YearGroups(text) = {}
                          /\ Len(text) >= 5
                          /\ \A i \in 1..4 : text[i] \in Digits
                          /\ text[5] \in Whitespace
                          /\ year = <<text[1], text[2], text[3], text[4]>>
                       \/ /\ YearGroups(text) = {}
                          /\ ~(Len(text) >= 5 /\ (\A i \in 1..4 : text[i] \in Digits) /\ text[5] \in Whitespace)
                          /\ year = None
                /\ (pc # "remove_prefix" /\ pc # "extract_year" /\ year # None) =>
                       (Len(year) = 4 /\ \A i \in 1..4 : year[i] \in Digits)
                /\ (pc = "done" /\ raw_title = <<"S", "c", "h", "i", "n", "d", "l", "e", "r", "'", "s", " ", "L", "i", "s", "t", " ", "(", "1", "9", "9", "3", ")">>) =>
                       /\ clean_title = <<"S", "c", "h", "i", "n", "d", "l", "e", "r", "'", "s", " ", "L", "i", "s", "t">>
                       /\ year = <<"1", "9", "9", "3">>
                       /\ notes = <<>>
                /\ (pc = "done" /\ raw_title = <<"1", "9", "9", "4", " ", "S", "o", "m", "e", " ", "T", "i", "t", "l", "e">>) =>
                       /\ clean_title = <<"S", "o", "m", "e", " ", "T", "i", "t", "l", "e">>
                       /\ year = <<"1", "9", "9", "4">>

C4_YearField == []C4_YearState /\ [][(pc = "remove_year" /\ year = None) => text' = text]_vars

\* the year was read from a parenthesized group although a bare 4-digit
\* number followed by whitespace starts the text
C4_Witness == /\ pc = "remove_year"
              /\ YearGroups(text) # {}
              /\ StartYearMatch(text)
              /\ year # None

(***************************************************************************)
(* Properties of prefix stripping (stage 1)                                *)
(***************************************************************************)
\* entry i of the prefix list matches the start of s, ignoring case
PrefixMatches(s, i) == /\ Len(prefixes[i]) <= Len(s)
                       /\ \A k \in 1..Len(prefixes[i]) : UpperChar(s[k]) = UpperChar(prefixes[i][k])

\* s without its first n characters, trimmed
DropTrim(s, n) == Strip(SubSeq(s, n + 1, Len(s)))

\* C5: remove_prefix returns the trimmed input without the first list entry
\* that matches it (ignoring case) and the whitespace after it, and strips
\* nothing more; a compound label goes as a whole; an input no entry
\* matches is returned trimmed.
C5_AtMostOnePrefix == pc = "extract_year" =>
                          /\ \/ /\ \A i \in 1..Len(prefixes) : ~PrefixMatches(Strip(raw_title), i)
                                /\ text = Strip(raw_title)
                             \/ \E i \in 1..Len(prefixes) :
                                   /\ PrefixMatches(Strip(raw_title), i)
                                   /\ \A j \in 1..(i - 1) : ~PrefixMatches(Strip(raw_title), j)
                                   /\ text = DropTrim(Strip(raw_title), Len(prefixes[i]))
                          /\ StartsWith(Upper(Strip(raw_title)), <<"F", "I", "L", "M", ":", " ", "D", "O", "C", "U", ":">>) =>
                                text = DropTrim(Strip(raw_title), 11)
                          /\ StartsWith(Upper(Strip(raw_title)), <<"F", "I", "L", "M", " ", ":", " ", "D", "O", "C", "U", ":">>) =>
                                text = DropTrim(Strip(raw_title), 12)

\* a compound label was stripped from an input that carries more text
C5_Witness == /\ pc = "extract_year"
              /\ StartsWith(Upper(Strip(raw_title)), <<"F", "I", "L", "M", ":", " ", "D", "O", "C", "U", ":">>)
              /\ Len(text) > 0

(***************************************************************************)
(* Properties of the notes field                                           *)
(***************************************************************************)
\* the text the parenthetical loop starts from: the input after stages 1 and 2
Stage2Text == LET stripped == remove_prefix(raw_title)
              IN  IF extract_year(stripped) # None THEN SubStartYear(SubYearGroup(stripped)) ELSE stripped

\* the parenthetical groups of s from offset pos on, found in one pass from
\* left to right: a group runs from an opening parenthesis that another
\* character than ")" follows to the first closing parenthesis after it;
\* each is trimmed and wrapped again, blank ones are left out
RECURSIVE GroupsFrom(_, _)
GroupsFrom(s, pos) == IF pos + 2 >= Len(s) THEN <<>>
                      ELSE IF s[pos + 1] = "(" /\ s[pos + 2] # ")" /\ (\E k \in (pos + 3)..Len(s) : s[k] = ")")
                           THEN LET close == CHOOSE k \in (pos + 3)..Len(s) :
                                                 s[k] = ")" /\ \A j \in (pos + 3)..(k - 1) : s[j] # ")"
                                    inner == Strip(SubSeq(s, pos + 2, close - 1))
                                IN  (IF inner = <<>> THEN <<>> ELSE << <<"(">> \o inner \o <<")">> >>) \o GroupsFrom(s, close)
                           ELSE GroupsFrom(s, pos + 1)

\* C6: the notes are the parenthetical groups of the text, trimmed and
\* re-wrapped, in their left-to-right order, joined by spaces and followed
\* last by one trailing remainder (a trimmed tail of the text that begins
\* at a matching noise marker) if a marker matched; the notes are empty
\* exactly when there is no non-blank group and no marker matched.
C6_NotesOrder == pc = "done" =>
                     /\ \/ /\ NoiseStarts = {}
                           /\ notes = Join(GroupsFrom(Stage2Text, 0))
                        \/ \E m \in NoiseStarts :
                              notes = Join(Append(GroupsFrom(Stage2Text, 0), Strip(SubSeq(text, m + 1, Len(text)))))
                     /\ (notes = <<>>) <=> (GroupsFrom(Stage2Text, 0) = <<>> /\ NoiseStarts = {})

\* two different groups and a trailing remainder made it into the notes
C6_Witness == /\ pc = "done"
              /\ Len(GroupsFrom(Stage2Text, 0)) >= 2
              /\ GroupsFrom(Stage2Text, 0)[1] # GroupsFrom(Stage2Text, 0)[2]
              /\ NoiseStarts # {}
              /\ Len(notes_parts) = Len(GroupsFrom(Stage2Text, 0)) + 1

\* C7 as stated: the combined example gives title "Title", year "2001" and
\* notes "(Director's Cut) recommended by Jo".
C7_ExampleAsStated == (pc = "done" /\ raw_title = <<"F", "i", "l", "m", ":", " ", "D", "o", "c", "u", ":", " ", "T", "i", "t", "l", "e", " ", "(", "D", "i", "r", "e", "c", "t", "o", "r", "'", "s", " ", "C", "u", "t", ")", " ", "(", "2", "0", "0", "1", ")", ",", " ", "r", "e", "c", "o", "m", "m", "e", "n", "d", "e", "d", " ", "b", "y", " ", "J", "o">>) =>
                          /\ clean_title = <<"T", "i", "t", "l", "e">>
                          /\ year = <<"2", "0", "0", "1">>
                          /\ notes = <<"(", "D", "i", "r", "e", "c", "t", "o", "r", "'", "s", " ", "C", "u", "t", ")", " ", "r", "e", "c", "o", "m", "m", "e", "n", "d", "e", "d", " ", "b", "y", " ", "J", "o">>

\* C7 amended: the combined example gives title "Title", year "2001" and
\* notes "(Director's Cut) , recommended by Jo": the remainder keeps the
\* comma it starts at.
C7_ExampleWithComma == (pc = "done" /\ raw_title = <<"F", "i", "l", "m", ":", " ", "D", "o", "c", "u", ":", " ", "T", "i", "t", "l", "e", " ", "(", "D", "i", "r", "e", "c", "t", "o", "r", "'", "s", " ", "C", "u", "t", ")", " ", "(", "2", "0", "0", "1", ")", ",", " ", "r", "e", "c", "o", "m", "m", "e", "n", "d", "e", "d", " ", "b", "y", " ", "J", "o">>) =>
                           /\ clean_title = <<"T", "i", "t", "l", "e">>
                           /\ year = <<"2", "0", "0", "1">>
                           /\ notes = <<"(", "D", "i", "r", "e", "c", "t", "o", "r", "'", "s", " ", "C", "u", "t", ")", " ", ",", " ", "r", "e", "c", "o", "m", "m", "e", "n", "d", "e", "d", " ", "b", "y", " ", "J", "o">>

\* the call on the combined example has returned
C7_Witness == /\ pc = "done"
              /\ raw_title = <<"F", "i", "l", "m", ":", " ", "D", "o", "c", "u", ":", " ", "T", "i", "t", "l", "e", " ", "(", "D", "i", "r", "e", "c", "t", "o", "r", "'", "s", " ", "C", "u", "t", ")", " ", "(", "2", "0", "0", "1", ")", ",", " ", "r", "e", "c", "o", "m", "m", "e", "n", "d", "e", "d", " ", "b", "y", " ", "J", "o">>
              /\ Len(notes_parts) = 2

(***************************************************************************)
(* Properties of the returned title                                        *)
(***************************************************************************)
\* C8: the returned title contains none of "http://", "https://", "www.";
\* an input that is only a URL gives an empty title and non-empty notes.
C8_NoUrlInTitle == pc = "done" =>
                       /\ \A p \in 0..Len(clean_title) : \A m \in UrlMarkers : ~MatchAt(clean_title, p, m)
                       /\ raw_title = <<"h", "t", "t", "p", "s", ":", "/", "/", "e", "x", "a", "m", "p", "l", "e", ".", "c", "o", "m", "/", "i", "n", "f", "o">> => (clean_title = <<>> /\ notes # <<>>)

\* C9: the returned title has no whitespace at either end, neither begins
\* nor ends with a comma or a dash, and holds no two whitespace characters
\* in a row.
C9_TitleTrimmed == (pc = "done" /\ clean_title # <<>>) =>
                       /\ clean_title[1] \notin Whitespace \cup {",", "-"}
                       /\ clean_title[Len(clean_title)] \notin Whitespace \cup {",", "-"}
                       /\ \A i \in 1..(Len(clean_title) - 1) :
                             ~(clean_title[i] \in Whitespace /\ clean_title[i + 1] \in Whitespace)

\* new is old with every word longer than two characters capitalized and
\* every shorter word in lower case, the words separated by single spaces
WordsCased(old, new) == /\ Len(Split(new)) = Len(Split(old))
                        /\ new = Join(Split(new))
                        /\ \A i \in 1..Len(Split(old)) :
                              LET w == Split(old)[i]
                                  v == Split(new)[i]
                              IN  /\ Len(v) = Len(w)
                                  /\ Len(w) > 2 => /\ v[1] = UpperChar(w[1])
                                                   /\ \A k \in 2..Len(w) : v[k] = LowerChar(w[k])
                                  /\ Len(w) <= 2 => \A k \in 1..Len(w) : v[k] = LowerChar(w[k])

\* s has an upper-case letter and no lower-case letter
EntirelyUpper(s) == /\ \E i \in 1..Len(s) : \E k \in 1..26 : s[i] = Uppercase[k]
                    /\ \A i \in 1..Len(s) : \A k \in 1..26 : s[i] # Lowercase[k]

\* C10: an entirely upper-case title candidate is returned as it is; any
\* other has each word longer than 2 characters capitalized and each word
\* of 1 or 2 characters put in lower case.
C10_TitleCasing == [][pc = "capitalise" =>
                         IF EntirelyUpper(clean_title)
                         THEN clean_title' = clean_title
                         ELSE WordsCased(clean_title, clean_title')]_vars

\* a mixed-case candidate with a short word holding a capital and a longer word
C10_Witness == /\ pc = "done"
               /\ \E i \in 1..Len(Split(raw_title)) :
                     Len(Split(raw_title)[i]) = 2 /\ IsUpper(Split(raw_title)[i][2])
               /\ \E i \in 1..Len(Split(clean_title)) : Len(Split(clean_title)[i]) > 2
               /\ clean_title # raw_title
               /\ Lower(clean_title) = Lower(raw_title)

(***************************************************************************)
(* Totality                                                                *)
(***************************************************************************)
\* the number of stages a call at position p still has to go through
StagesLeft(p) == CASE p = "remove_prefix" -> 10
                   [] p = "extract_year"  -> 9
                   [] p = "remove_year"   -> 8
                   [] p = "parens"        -> 7
                   [] p = "url"           -> 6
                   [] p = "comma"         -> 5
                   [] p = "dash"          -> 4
                   [] p = "split"         -> 3
                   [] p = "normalise"     -> 2
                   [] p = "capitalise"    -> 1
                   [] p = "done"          -> 0

\* s is blank, or is a label prefix and nothing else
DegenerateInput(s) == \/ Strip(s) = <<>>
                      \/ \E i \in 1..Len(prefixes) :
                            Len(Strip(s)) = Len(prefixes[i]) /\ PrefixMatches(Strip(s), i)

\* C11: every call returns a (title, year, notes) result: each step brings
\* the call closer to its return (a stage less to go, or the same stage on a
\* shorter text), and what it returns is a title, a year that is absent or
\* four characters, and notes; for an empty, blank or prefix-only input the
\* result is title "", year absent, notes "".
C11_Total == /\ [][\/ StagesLeft(pc') < StagesLeft(pc)
                   \/ StagesLeft(pc') = StagesLeft(pc) /\ Len(text') < Len(text)]_vars
             /\ [](pc = "done" =>
                     /\ year = None \/ Len(year) = 4
                     /\ DegenerateInput(raw_title) => (clean_title = <<>> /\ year = None /\ notes = <<>>))

\* a call on an input that is just a label prefix has returned
C11_Witness == /\ pc = "done"
               /\ DegenerateInput(raw_title)
               /\ Strip(raw_title) # <<>>

(***************************************************************************)
(* preprocess_data: the loop over the raw records.  The parser runs in     *)
(* the same variables for every record, so what a call leaves behind is    *)
(* what the next call finds.                                               *)
(***************************************************************************)
MaxRows == 3

\* raw records: a title column and a suggester column
RowPool == {[film_title |-> <<"A", "b", " ", "(", "n", ")">>, suggested_by |-> <<>>],
            [film_title |-> <<"A", "b", " ", "(", "n", ")">>, suggested_by |-> <<" ", "J", "o">>],
            [film_title |-> <<" ">>, suggested_by |-> <<"J", "o">>],
            [film_title |-> <<"C", "d", ",", " ", "r", "e", " ", "J", "o">>, suggested_by |-> <<"J", "o">>],
            [film_title |-> <<" ", "A", "b", " ", "(", "1", "9", "9", "9", ")">>, suggested_by |-> <<>>],
            [film_title |-> <<>>, suggested_by |-> <<>>]}

\* sub in s (substring test)
Contains(s, sub) == \E p \in 0..Len(s) : MatchAt(s, p, sub)

\* the value with the suggester before every note, whatever the notes hold
AllNotes_always(notes_, suggested_by) == IF Len(suggested_by) > 0
                                         THEN IF Len(notes_) > 0
                                              THEN notes_ \o <<" ", "|", " ", "S", "u", "g", "g", "e", "s", "t", "e", "d", " ", "b", "y", ":", " ">> \o suggested_by
                                              ELSE <<"S", "u", "g", "g", "e", "s", "t", "e", "d", " ", "b", "y", ":", " ">> \o suggested_by
                                         ELSE notes_

\* all_notes: the notes of the title, and the suggester unless the notes name it
AllNotes(notes_, suggested_by) == IF Len(suggested_by) > 0 /\ ~Contains(notes_, suggested_by)
                                  THEN IF Len(notes_) > 0
                                       THEN notes_ \o <<" ", "|", " ", "S", "u", "g", "g", "e", "s", "t", "e", "d", " ", "b", "y", ":", " ">> \o suggested_by
                                       ELSE <<"S", "u", "g", "g", "e", "s", "t", "e", "d", " ", "b", "y", ":", " ">> \o suggested_by
                                  ELSE notes_

\* the parser frame before the first call
ParserIdle == /\ pc = "idle"
              /\ raw_title = <<>>
              /\ text = <<>>
              /\ year = None
              /\ notes_parts = <<>>
              /\ title_end = 0
              /\ notes_start = 0
              /\ clean_title = <<>>
              /\ notes = <<>>

InitBatch == /\ raw_data \in UNION {[1..k -> RowPool] : k \in 0..MaxRows}
             /\ caller_pc = "loop"
             /\ row_idx = 0
             /\ processed_rows = <<>>
             /\ calls = <<>>
             /\ parse_no = 1
             /\ ParserIdle
             /\ NoAvail

\* if not raw_title: continue
SkipRow == /\ caller_pc = "loop"
           /\ row_idx < Len(raw_data)
           /\ Strip(raw_data[row_idx + 1].film_title) = <<>>
           /\ row_idx' = row_idx + 1
           /\ UNCHANGED <<parserVars, parse_no, caller_pc, raw_data, processed_rows, calls, availVars>>

\* extract_clean_title(raw_title) is entered
CallParser == /\ caller_pc = "loop"
              /\ row_idx < Len(raw_data)
              /\ Strip(raw_data[row_idx + 1].film_title) # <<>>
              /\ raw_title' = Strip(raw_data[row_idx + 1].film_title)
              /\ pc' = "remove_prefix"
              /\ caller_pc' = "in_call"
              /\ UNCHANGED <<text, year, notes_parts, title_end, notes_start, clean_title, notes>>
              /\ UNCHANGED <<parse_no, raw_data, row_idx, processed_rows, calls, availVars>>

\* the call returns; processed_rows.append({...})
EmitRow == /\ caller_pc = "in_call"
           /\ pc = "done"
           /\ LET suggested_by == Strip(raw_data[row_idx + 1].suggested_by)
              IN  processed_rows' = Append(processed_rows,
                                           [title |-> clean_title,
                                            year |-> IF year = None THEN <<>> ELSE year,
                                            suggested_by |-> suggested_by,
                                            notes |-> AllNotes(notes, suggested_by)])
           /\ calls' = Append(calls, [arg |-> raw_title, title |-> clean_title, year |-> year, notes |-> notes])
           /\ row_idx' = row_idx + 1
           /\ caller_pc' = "loop"
           /\ pc' = "idle"
           /\ UNCHANGED <<raw_title, text, year, notes_parts, title_end, notes_start, clean_title, notes>>
           /\ UNCHANGED <<parse_no, raw_data, availVars>>

\* the loop is over: writer.writerows(processed_rows)
WriteRows == /\ caller_pc = "loop"
             /\ row_idx = Len(raw_data)
             /\ caller_pc' = "written"
             /\ UNCHANGED <<parserVars, parse_no, raw_data, row_idx, processed_rows, calls, availVars>>

NextBatch == \/ Next
             \/ SkipRow
             \/ CallParser
             \/ EmitRow
             \/ WriteRows

SpecBatch == InitBatch /\ [][NextBatch]_vars

NonBlank(row) == Strip(row.film_title) # <<>>

\* C13 as stated: the parser is called once for every raw record and every
\* record gives one output row, in input order, with the title, year and
\* notes of its call (an absent year as the empty string).
C13_OneRowPerRecord == caller_pc = "written" =>
                           /\ Len(calls) = Len(raw_data)
                           /\ Len(processed_rows) = Len(raw_data)
                           /\ \A k \in 1..Len(processed_rows) :
                                 /\ processed_rows[k].title = calls[k].title
                                 /\ processed_rows[k].year = (IF calls[k].year = None THEN <<>> ELSE calls[k].year)
                                 /\ processed_rows[k].notes = calls[k].notes

\* C13 amended: the parser is called once, on the trimmed title, for every
\* record whose title is not blank, and each such record gives one output
\* row, in input order, with the title and year of its call (an absent year
\* as the empty string) and the notes of its call, to which the suggester
\* is added unless it is empty or occurs in those notes; a record with a
\* blank title is skipped.
C13_OneRowPerTitledRecord == caller_pc = "written" =>
                                 LET titled == SelectSeq(raw_data, NonBlank)
                                 IN  /\ Len(calls) = Len(titled)
                                     /\ Len(processed_rows) = Len(titled)
                                     /\ \A k \in 1..Len(titled) :
                                           LET by == Strip(titled[k].suggested_by)
                                               named == \E p \in 0..Len(calls[k].notes) : MatchAt(calls[k].notes, p, by)
                                               label == <<"S", "u", "g", "g", "e", "s", "t", "e", "d", " ", "b", "y", ":", " ">>
                                           IN  /\ calls[k].arg = Strip(titled[k].film_title)
                                               /\ processed_rows[k].title = calls[k].title
                                               /\ processed_rows[k].year = (IF calls[k].year = None THEN <<>> ELSE calls[k].year)
                                               /\ processed_rows[k].suggested_by = by
                                               /\ processed_rows[k].notes =
                                                      (IF by = <<>> \/ named THEN calls[k].notes
                                                       ELSE IF calls[k].notes = <<>> THEN label \o by
                                                       ELSE calls[k].notes \o <<" ", "|", " ">> \o label \o by)

\* a batch with a blank record, a record whose notes name the suggester
\* and a record whose notes get the suggester added was written
C13_Witness == /\ caller_pc = "written"
               /\ Len(processed_rows) = 2
               /\ Len(raw_data) = 3
               /\ \E k \in 1..2 : processed_rows[k].notes = calls[k].notes /\ processed_rows[k].suggested_by # <<>>
               /\ \E k \in 1..2 : processed_rows[k].notes # calls[k].notes /\ calls[k].notes # <<>>

(***************************************************************************)
(* Properties of the parenthetical loop (stage 3)                          *)
(***************************************************************************)
\* stage 3 is over
AfterParens == pc \in {"url", "comma", "dash", "split", "normalise", "capitalise", "done"}

\* s has an opening parenthesis with a closing one somewhere after it
OpenThenClose(s) == \E i \in 1..Len(s) : \E j \in (i + 1)..Len(s) : s[i] = "(" /\ s[j] = ")"

\* s has an opening parenthesis, then a character other than ")", and a
\* closing parenthesis after that
GroupWithContent(s) == \E i \in 1..Len(s) : \E j \in (i + 2)..Len(s) :
                           s[i] = "(" /\ s[i + 1] # ")" /\ s[j] = ")"

\* C14 as stated: after stage 3 the text, and so the returned title, has no
\* opening parenthesis that a closing parenthesis follows later.
C14_NoParenPairLeft == /\ AfterParens => ~OpenThenClose(text)
                       /\ pc = "done" => ~OpenThenClose(clean_title)

\* C14 amended: after stage 3 the text, and so the returned title, has no
\* opening parenthesis that is followed by a character other than ")" and
\* later by a closing parenthesis; an empty pair "()" is no group and stays.
C14_NoGroupLeft == /\ AfterParens => ~GroupWithContent(text)
                   /\ pc = "done" => ~GroupWithContent(clean_title)

\* a group was taken out and an empty pair is still in the text
C14_Witness == /\ pc = "url"
               /\ Len(notes_parts) >= 1
               /\ OpenThenClose(text)

\* C15: an iteration that finds a group makes the running text strictly
\* shorter and stays in the loop; the first search that fails leaves the
\* loop with the text and the notes as they are, which on a text without
\* parentheses is the very first search.  The text cannot shrink for ever,
\* so the loop terminates.
C15_LoopTerminates == [][pc = "parens" =>
                            IF GroupWithContent(text)
                            THEN pc' = "parens" /\ Len(text') < Len(text)
                            ELSE pc' = "url" /\ text' = text /\ notes_parts' = notes_parts]_vars

\* the loop has taken out one group and the next search will find another
C15_Witness == /\ pc = "parens"
               /\ notes_parts # <<>>
               /\ GroupWithContent(text)

(***************************************************************************)
(* Which commas and dashes are noise markers                               *)
(***************************************************************************)
\* c is a letter
IsLetter(c) == \E k \in 1..26 : c = Lowercase[k] \/ c = Uppercase[k]

\* index of the first character of s at or after index i that is no whitespace
RECURSIVE WordIndex(_, _)
WordIndex(s, i) == IF i <= Len(s) /\ s[i] \in Whitespace THEN WordIndex(s, i + 1) ELSE i

\* one of the words stands in s from index i on
WordFrom(s, i, words) == \E w \in words : i + Len(w) - 1 <= Len(s) /\ SubSeq(s, i, i + Len(w) - 1) = w

\* a lower-case letter stands in s at index i
LowerFrom(s, i) == i <= Len(s) /\ \E k \in 1..26 : s[i] = Lowercase[k]

\* two upper-case letters stand in s at indexes i and i + 1
CapsFrom(s, i) == i + 1 <= Len(s) /\ (\E k \in 1..26 : s[i] = Uppercase[k]) /\ (\E k \in 1..26 : s[i + 1] = Uppercase[k])

\* the keywords after a dash and after a comma, as the claims list them
DashWords == {<<"r", "e", "c", "o", "m", "m", "e", "n", "d", "e", "d">>, <<"f", "i", "l", "m">>, <<"p", "r", "e", "c", "u", "r", "s", "o", "r">>, <<"p", "o", "l", "i", "t", "i", "c", "a", "l">>, <<"h", "t", "t", "p", "s">>, <<"w", "w", "w">>, <<"I", "M", "D", "b">>}

CommaWords == {<<"r", "e", "c", "o", "m", "m", "e", "n", "d", "e", "d">>, <<"f", "i", "l", "m">>, <<"r", "e", "c", "o", "m">>, <<"A", "m", "a", "z", "o", "n">>, <<"N", "e", "t", "f", "l", "i", "x">>, <<"I", "M", "D", "b">>}

\* offsets p where whitespace, a dash and whitespace stand, followed by
\* something for which Follows(s, i) holds (i the index of what follows)
DashStarts(s, Follows(_, _)) == {p \in 0..Len(s) :
                                   /\ p < Len(s)
                                   /\ s[p + 1] \in Whitespace
                                   /\ WordIndex(s, p + 1) <= Len(s)
                                   /\ s[WordIndex(s, p + 1)] = "-"
                                   /\ WordIndex(s, p + 1) + 1 <= Len(s)
                                   /\ s[WordIndex(s, p + 1) + 1] \in Whitespace
                                   /\ Follows(s, WordIndex(s, WordIndex(s, p + 1) + 1))}

\* what the dash step does when S is the set of offsets of the dash markers
DashStepFinds(S) == IF S = {}
                    THEN UNCHANGED <<title_end, notes_start>>
                    ELSE /\ notes_start' = Least(S)
                         /\ title_end' = (IF title_end <= Least(S) THEN title_end ELSE Least(S))

\* a lower-case letter, a token of exactly two capitals, or a keyword
DashFollowAsStated(s, i) == \/ LowerFrom(s, i)
                            \/ CapsFrom(s, i) /\ (i + 2 > Len(s) \/ ~IsLetter(s[i + 2]))
                            \/ WordFrom(s, i, DashWords)

\* C16 as stated: the dash marker is a space-dash-space followed by a
\* lower-case letter, by an all-caps token of exactly two letters, or by a
\* keyword; followed by anything else it is no boundary.
C16_DashMarkerAsStated == [][pc = "dash" => DashStepFinds(DashStarts(text, DashFollowAsStated))]_vars


\* offsets p where a comma stands, then at least MinWs whitespace
\* characters, then a lower-case letter or a keyword
CommaStarts(s, MinWs) == {p \in 0..Len(s) :
                            /\ p < Len(s)
                            /\ s[p + 1] = ","
                            /\ WordIndex(s, p + 2) >= p + 2 + MinWs
                            /\ (LowerFrom(s, WordIndex(s, p + 2)) \/ WordFrom(s, WordIndex(s, p + 2), CommaWords))}

\* what the comma step does when S is the set of offsets of the comma markers
CommaStepFinds(S) == IF S = {}
                     THEN UNCHANGED <<title_end, notes_start>>
                     ELSE /\ notes_start' = Least(S)
                          /\ title_end' = (IF title_end <= Least(S) THEN title_end ELSE Least(S))

\* C17 as stated: the comma marker is a comma followed by a lower-case
\* letter or by a keyword (with or without whitespace in between);
\* followed by anything else it is no boundary.
C17_CommaMarkerAsStated == [][pc = "comma" => CommaStepFinds(CommaStarts(text, 0))]_vars

\* C17 amended: the comma marker is a comma followed by at least one
\* whitespace character and then a lower-case letter or a keyword; a comma
\* followed by anything else, such as a lower-case letter right after it or
\* a capitalised word that is no keyword, is no boundary.
C17_CommaMarker == [][pc = "comma" => CommaStepFinds(CommaStarts(text, 1))]_vars

\* the comma step cut the text at a comma with a keyword in capitals after it
C17_Witness == /\ pc = "dash"
               /\ CommaStarts(text, 1) # {}
               /\ notes_start = Least(CommaStarts(text, 1))
               /\ \E k \in 1..26 : text[WordIndex(text, notes_start + 2)] = Uppercase[k]

(***************************************************************************)
(* Parsing a cleaned title again                                           *)
(***************************************************************************)
\* labels, years, groups and markers whose casing the parser changes
ReparsePool == {<<"F", "i", "l", "m", ":">>,
                <<"T", "V", ":">>,
                <<"A", "b">>,
                <<" ">>,
                <<",", " ", "R", "E">>,
                <<" ", "-", " ", "A", "b">>,
                <<"1", "9", "9", "4">>,
                <<"(", "n", ")">>,
                <<"x", "H", "T", "T", "P", ":", "/", "/">>,
                <<"-">>,
                <<"\t">>}

InitReparse == raw_title \in Examples \cup Build(ReparsePool) /\ InitLocals /\ NoBatch /\ NoAvail

\* extract_clean_title(t) for the title t the first call returned
Reparse == /\ pc = "done"
           /\ parse_no = 1
           /\ raw_title' = clean_title
           /\ parse_no' = 2
           /\ pc' = "remove_prefix"
           /\ UNCHANGED <<text, year, notes_parts, title_end, notes_start, clean_title, notes>>
           /\ UNCHANGED <<caller_pc, raw_data, row_idx, processed_rows, calls, availVars>>

NextReparse == \/ Next
               \/ Reparse

SpecReparse == InitReparse /\ [][NextReparse]_vars

\* C18 as stated: whatever the input s, parsing the title t of
\* extract_clean_title(s) again returns t itself, no year and empty notes.
C18_ReparseNoOp == (parse_no = 2 /\ pc = "done") => (clean_title = raw_title /\ year = None /\ notes = <<>>)

\* t begins with one of the labels, in any casing
LabelAtStart(t) == \E i \in 1..Len(prefixes) : StartsWith(Upper(t), Upper(prefixes[i]))

\* t is a title in which the parser finds nothing more to take away
Settled(t) == /\ ~LabelAtStart(t)
              /\ ~StartYearMatch(t)
              /\ UrlHits(t) = {}
              /\ CommaHits(t) = {}
              /\ DashHits(t) = {}
              /\ (t = <<>> \/ t[Len(t)] \notin {",", "-"})

\* C18 amended: parsing the title t of extract_clean_title(s) again returns
\* t itself, no year and empty notes, provided t does not begin with a
\* label prefix or with a four-digit year followed by whitespace, contains
\* no URL, comma or dash marker, and does not end with a comma or a dash.
C18_ReparseOfSettledNoOp == (parse_no = 2 /\ pc = "done" /\ Settled(raw_title)) =>
                                (clean_title = raw_title /\ year = None /\ notes = <<>>)

\* a title of two words, one of them lower-cased by the first call, was
\* parsed again
C18_Witness == /\ parse_no = 2
               /\ pc = "done"
               /\ Settled(raw_title)
               /\ Len(Split(raw_title)) >= 2
               /\ \E i \in 1..Len(raw_title) : IsLower(raw_title[i])

(***************************************************************************)
(* check_film_availability: one call per behaviour, av_pc is the position  *)
(* in the function body, api_calls the requests sent to the service so far *)
(***************************************************************************)
COUNTRIES == <<"GB", "US", "CA", "AU", "NZ">>

Countries == {COUNTRIES[i] : i \in 1..Len(COUNTRIES)}

\* the requests of get_movie_details, in the order it sends them
DetailRequests == <<"movie", "videos", "credits">>

\* the films the function is called with: year absent, empty or given
FilmPool == {[title |-> <<"A", "l", "i", "e", "n">>, year |-> <<"1", "9", "7", "9">>, suggested_by |-> <<"J", "o">>, notes |-> <<>>],
             [title |-> <<"H", "e", "a", "t">>, year |-> None, suggested_by |-> <<>>, notes |-> <<"(", "n", ")">>],
             [title |-> <<"A", "b">>, year |-> <<>>, suggested_by |-> <<>>, notes |-> <<>>]}

\* the ids the search can return, in decimal; 0 is an id that tests false
MovieIds == {<<"0">>, <<"7", "8">>, <<"6", "0", "3">>}

\* what the service lists for one country: nothing, providers with a
\* name, or a free provider whose name is null
ProviderData == {"none", "named", "unnamed"}

\* the availability dict before get_watch_providers fills it
EmptyMap == [c \in {} |-> "none"]

\* the truth value of movie_id in "if not movie_id"
Truthy(id) == id # None /\ id # <<"0">>

InitAvail == /\ film \in FilmPool
             /\ av_pc = "start"
             /\ movie_id = None
             /\ result = <<>>
             /\ api_calls = <<>>
             /\ ParserIdle
             /\ NoBatch

\* result = {...}
BuildResult == /\ av_pc = "start"
               /\ result' = [title |-> film.title,
                             year |-> IF film.year \in {None, <<>>} THEN <<"N", "/", "A">> ELSE film.year,
                             suggested_by |-> film.suggested_by,
                             notes |-> film.notes,
                             tmdb_id |-> None,
                             not_found_on_tmdb |-> FALSE,
                             availability |-> EmptyMap,
                             details |-> "absent"]
               /\ av_pc' = "search"
               /\ UNCHANGED <<film, movie_id, api_calls, parserVars, callerVars>>

\* movie_id = search_film(title, year): the id of the first result, or None
\* when there is no result or the request fails
SearchFilm == /\ av_pc = "search"
              /\ api_calls' = Append(api_calls, "search")
              /\ \E found \in {None} \cup MovieIds : movie_id' = found
              /\ av_pc' = "test"
              /\ UNCHANGED <<film, result, parserVars, callerVars>>

\* the not-found branch leaving the flag as it was
SkipFilm_unmarked == /\ av_pc = "test"
                     /\ ~Truthy(movie_id)
                     /\ av_pc' = "returned"
                     /\ UNCHANGED <<film, movie_id, result, api_calls, parserVars, callerVars>>

\* if not movie_id: result['not_found_on_tmdb'] = True; return result
SkipFilm == /\ av_pc = "test"
            /\ ~Truthy(movie_id)
            /\ result' = [result EXCEPT !.not_found_on_tmdb = TRUE]
            /\ av_pc' = "returned"
            /\ UNCHANGED <<film, movie_id, api_calls, parserVars, callerVars>>

\* result['tmdb_id'] = movie_id
SetTmdbId == /\ av_pc = "test"
             /\ Truthy(movie_id)
             /\ result' = [result EXCEPT !.tmdb_id = movie_id]
             /\ av_pc' = "details"
             /\ UNCHANGED <<film, movie_id, api_calls, parserVars, callerVars>>

\* details = get_movie_details(movie_id); result.update(details): the first
\* ok requests succeed, the next one (if any) fails and ends the function
GetMovieDetails == /\ av_pc = "details"
                   /\ \E ok \in 0..Len(DetailRequests) :
                         /\ api_calls' = api_calls \o SubSeq(DetailRequests, 1, IF ok < Len(DetailRequests) THEN ok + 1 ELSE ok)
                         /\ result' = [result EXCEPT !.details = IF ok = 0 THEN "defaults" ELSE DetailRequests[ok]]
                   /\ av_pc' = "providers"
                   /\ UNCHANGED <<film, movie_id, parserVars, callerVars>>

\* availability = get_watch_providers(movie_id); result['availability'] =
\* availability: the listing per country, or nothing for every country
\* when the request fails
GetWatchProviders == /\ av_pc = "providers"
                     /\ api_calls' = Append(api_calls, "providers")
                     /\ \/ result' = [result EXCEPT !.availability = [c \in Countries |-> "none"]]
                        \/ \E data \in [Countries -> ProviderData] : result' = [result EXCEPT !.availability = data]
                     /\ av_pc' = "print"
                     /\ UNCHANGED <<film, movie_id, parserVars, callerVars>>

\* the summary loop and return result; ', '.join(providers) raises on a
\* name that is null and nothing is returned
PrintSummary == /\ av_pc = "print"
                /\ av_pc' = (IF \E c \in Countries : result.availability[c] = "unnamed" THEN "raised" ELSE "returned")
                /\ UNCHANGED <<film, movie_id, result, api_calls, parserVars, callerVars>>

NextAvail == \/ BuildResult
             \/ SearchFilm
             \/ SkipFilm
             \/ SetTmdbId
             \/ GetMovieDetails
             \/ GetWatchProviders
             \/ PrintSummary

SpecAvail == InitAvail /\ [][NextAvail]_vars

\* the request sequences of a whole call in which the search gave an id
FoundCallOrders == {<<"search", "movie", "providers">>,
                    <<"search", "movie", "videos", "providers">>,
                    <<"search", "movie", "videos", "credits", "providers">>}

\* s is an initial part of t
IsPrefix(s, t) == Len(s) <= Len(t) /\ SubSeq(t, 1, Len(s)) = s

\* C19: the search is the first request; the requests of get_movie_details
\* and then the one of get_watch_providers are sent only after the search
\* returned an id; when the search returns nothing the call sends no other
\* request and returns not_found_on_tmdb = True, tmdb_id = None and an empty
\* availability; in every returned result not_found_on_tmdb is True
\* exactly when tmdb_id is None.
C19_CallOrder == /\ api_calls = <<>> \/ \E o \in FoundCallOrders : IsPrefix(api_calls, o)
                 /\ Len(api_calls) > 1 => (av_pc \notin {"start", "search", "test"} /\ movie_id # None)
                 /\ av_pc = "returned" =>
                      /\ movie_id = None => /\ api_calls = <<"search">>
                                             /\ result.not_found_on_tmdb
                                             /\ result.tmdb_id = None
                                             /\ result.availability = EmptyMap
                      /\ movie_id # None => (api_calls = <<"search">> \/ api_calls \in FoundCallOrders)
                      /\ result.not_found_on_tmdb <=> result.tmdb_id = None

\* a call returned after the search gave an id and all five requests were sent
C19_Witness == /\ av_pc = "returned"
               /\ result.tmdb_id = movie_id
               /\ movie_id # None
               /\ Len(api_calls) = 5
               /\ api_calls[5] = "providers"
               /\ \E c \in Countries : result.availability[c] = "named"

====
